---- MODULE Spec2Model ----
(***************************************************************************)
(* Model of Crawler/YoutubeData/YoutubeCrawler.py: the YoutubeCrawler      *)
(* request orchestrator (key rotation in _response, pagination in          *)
(* _video_desc, pool fan-out in channel_video_desc and                     *)
(* video_statistics_by_channel, and the pure helpers).                     *)
(*                                                                         *)
(* Python strings are sequences of character codes (ASCII for the text the *)
(* code handles, code points above 1000 for opaque identifiers handed out  *)
(* by the API).  Python values that reach a truth test are records         *)
(* [kind, int, seq].                                                       *)
(***************************************************************************)
EXTENDS Integers, Sequences, FiniteSets, TLC

\* ---------------------------------------------------------------- bounds
MaxKeys == 2          \* longest api_key_list supplied to the constructor
MaxFaults == 2        \* API calls of one public operation that end in an error or an empty dict
MaxSpin == 2          \* loop iterations counted for a resource no branch matches
MaxPages == 1         \* token-bearing pages the API serves during one public operation
MaxChannels == 2      \* channel items in one channels().list response
MaxStatItems == 2     \* channel items in one statistics response

\* ---------------------------------------------------------------- values
NoneV == [kind |-> "none", int |-> 0, seq |-> <<>>]
StrV(s) == [kind |-> "str", int |-> 0, seq |-> s]
IntV(n) == [kind |-> "int", int |-> n, seq |-> <<>>]
ListV(l) == [kind |-> "list", int |-> 0, seq |-> l]

\* string literals of the source, as ASCII codes
S_snippet == <<115, 110, 105, 112, 112, 101, 116>>
S_statistics == <<115, 116, 97, 116, 105, 115, 116, 105, 99, 115>>
S_contentDetails == <<99, 111, 110, 116, 101, 110, 116, 68, 101, 116, 97, 105, 108, 115>>
Comma == 44

\* Python truth value of an object: `if value:` / `not response`
TruthyLenient(v) == v.kind # "none"
Truthy(v) ==
    CASE v.kind = "none" -> FALSE
      [] v.kind = "int" -> v.int # 0
      [] v.kind = "str" -> Len(v.seq) # 0
      [] v.kind = "list" -> Len(v.seq) # 0

\* _remove_empty_kwargs(**kwargs): the mapping restricted to truthy values
_remove_empty_kwargs(kw) ==
    [k \in {n \in DOMAIN kw : Truthy(kw[n])} |-> kw[k]]

\* ------------------------------------------------------------- responses
\* What .execute() hands back: None is the initial value of `response`,
\* "empty" is the empty dict {}, "dict" is a dict with an items list and an
\* optional nextPageToken.
None == [kind |-> "None", items |-> <<>>, hasToken |-> FALSE, nextPageToken |-> <<>>]
EmptyDict == [kind |-> "empty", items |-> <<>>, hasToken |-> FALSE, nextPageToken |-> <<>>]
Dict(items, hasToken, tok) ==
    [kind |-> "dict", items |-> items, hasToken |-> hasToken, nextPageToken |-> tok]

\* `not response` (line 53)
NotResponseNoneOnly(r) == r.kind = "None"
NotResponse(r) == r.kind \in {"None", "empty"}

\* the four resource branches of _response (lines 57-75)
SupportedResourcesAny == {"channels", "search", "videos", "playlistitems", "other"}
SupportedResources == {"channels", "search", "videos", "playlistitems"}

\* ----------------------------------------------------------------- state
VARIABLES
    api_key_list,   \* the list given to __init__
    thread,         \* self.thread
    api_key_iter,   \* per object: how many keys the iterator has yielded
    client,         \* per object: developerKey the session was built with
    self,           \* the object whose method is running: "main" or "copy"
    op, pc,         \* the public operation in progress and its position
    loc,            \* locals of the public operation
    task,           \* the pool task in progress (or NoTask)
    resource, kwargs, response, rpc, iterations,   \* frame of _response
    orig,           \* history: the kwargs as _response received them
    sent,           \* history: the last request transmitted to the API
    outcome,        \* history: how the last loop iteration of _response ended
    replaced,       \* history: keys that were replaced after a 403
    paged,          \* history: token-bearing pages served to the operation in progress
    faults          \* history: failed API calls of the operation in progress

vars == <<api_key_list, thread, api_key_iter, client, self, op, pc, loc, task,
          resource, kwargs, response, rpc, iterations, orig, sent, outcome, replaced,
          paged, faults>>

objVars == <<api_key_iter, client, replaced>>
callVars == <<resource, kwargs, response, rpc, iterations, orig, sent, outcome>>

Objs == {"main", "copy"}
NoTask == [name |-> "none"]
NoLoc == [none |-> TRUE]
NoSent == [resource |-> "none", key |-> 0, kwargs |-> <<>>]

\* ------------------------------------------------------------ constructor
\* __init__ (lines 21-24): the iterator yields the first key for the session
Init ==
    /\ api_key_list \in {[i \in 1..n |-> i] : n \in 1..MaxKeys}
    /\ thread \in BOOLEAN
    /\ api_key_iter = [o \in Objs |-> IF o = "main" THEN 1 ELSE 0]
    /\ client = [o \in Objs |-> IF o = "main" THEN api_key_list[1] ELSE 0]
    /\ self = "main"
    /\ op = "none" /\ pc = "idle" /\ loc = NoLoc /\ task = NoTask
    /\ resource = "none" /\ kwargs = <<>> /\ response = None /\ rpc = "none"
    /\ iterations = 0 /\ orig = <<>> /\ sent = NoSent /\ outcome = "none"
    /\ replaced = {}
    /\ faults = 0
    /\ paged = 0

\* --------------------------------------------------------------- _response
\* lines 49-51: prune the kwargs once, response = None, enter the loop
Enter_response(res, kw) ==
    /\ resource' = res
    /\ kwargs' = _remove_empty_kwargs(kw)
    /\ orig' = kw
    /\ response' = None
    /\ rpc' = "loop"
    /\ iterations' = 0
    /\ sent' = NoSent
    /\ outcome' = "none"

\* the frame of _response is dropped once the caller has taken the result
Leave_response ==
    /\ resource' = "none" /\ kwargs' = <<>> /\ orig' = <<>> /\ response' = None
    /\ rpc' = "none" /\ iterations' = 0 /\ sent' = NoSent /\ outcome' = "none"

\* the request self.client.<resource>().list(**kwargs).execute() puts on the wire
Request == [resource |-> resource, key |-> client[self], kwargs |-> kwargs]

\* except HttpError (lines 77-81): what the handler does to the iterator
\* position `it` and the session key `cl` of self for an error of this status
OnHttpErrorNoRebind(status, it, cl) ==
    IF status = 403
    THEN IF it < Len(api_key_list)
         THEN [iter |-> it + 1, client |-> cl, raised |-> FALSE]
         ELSE [iter |-> it, client |-> cl, raised |-> TRUE]
    ELSE [iter |-> it, client |-> cl, raised |-> FALSE]
OnHttpErrorWrap(status, it, cl) ==
    IF status = 403
    THEN IF it < Len(api_key_list)
         THEN [iter |-> it + 1, client |-> api_key_list[it + 1], raised |-> FALSE]
         ELSE [iter |-> 1, client |-> api_key_list[1], raised |-> FALSE]
    ELSE [iter |-> it, client |-> cl, raised |-> FALSE]
OnHttpErrorAnyStatus(status, it, cl) ==
    IF it < Len(api_key_list)
    THEN [iter |-> it + 1, client |-> api_key_list[it + 1], raised |-> FALSE]
    ELSE [iter |-> it, client |-> cl, raised |-> status = 403]
OnHttpErrorSurface(status, it, cl) ==
    IF status = 403
    THEN IF it < Len(api_key_list)
         THEN [iter |-> it + 1, client |-> api_key_list[it + 1], raised |-> FALSE]
         ELSE [iter |-> it, client |-> cl, raised |-> TRUE]
    ELSE [iter |-> it, client |-> cl, raised |-> TRUE]
OnHttpError(status, it, cl) ==
    IF status = 403
    THEN IF it < Len(api_key_list)
         THEN [iter |-> it + 1, client |-> api_key_list[it + 1], raised |-> FALSE]
         ELSE [iter |-> it, client |-> cl, raised |-> TRUE]   \* StopIteration
    ELSE [iter |-> it, client |-> cl, raised |-> FALSE]

\* statuses an HttpError may carry
Statuses == {403, 404, 500}

InLoop == rpc = "loop" /\ resource \in SupportedResources

\* one loop iteration whose execute() raises HttpError
ResponseHttpError ==
    /\ InLoop
    /\ faults < MaxFaults
    /\ faults' = faults + 1
    /\ UNCHANGED paged
    /\ \E status \in Statuses :
        LET r == OnHttpError(status, api_key_iter[self], client[self]) IN
        /\ api_key_iter' = [api_key_iter EXCEPT ![self] = r.iter]
        /\ client' = [client EXCEPT ![self] = r.client]
        /\ replaced' = IF r.client # client[self] THEN replaced \cup {client[self]}
                       ELSE replaced
        /\ rpc' = IF r.raised THEN "raise" ELSE "loop"
        /\ outcome' = IF status = 403 THEN "403" ELSE "error"
    /\ sent' = Request
    /\ iterations' = iterations + 1
    /\ UNCHANGED <<api_key_list, thread, self, op, pc, loc, task,
                   resource, kwargs, response, orig>>

\* one loop iteration whose execute() returns the empty dict
ResponseEmpty ==
    /\ InLoop
    /\ faults < MaxFaults
    /\ faults' = faults + 1
    /\ UNCHANGED paged
    /\ response' = EmptyDict
    /\ rpc' = IF NotResponse(response') THEN "loop" ELSE "return"
    /\ sent' = Request
    /\ iterations' = iterations + 1
    /\ outcome' = "empty"
    /\ UNCHANGED <<api_key_list, thread, self, op, pc, loc, task, objVars,
                   resource, kwargs, orig>>

\* one loop iteration with a resource none of the four branches matches:
\* nothing is called, response stays None
ResponseUnsupported ==
    /\ rpc = "loop"
    /\ resource \notin SupportedResources
    /\ iterations' = IF iterations < MaxSpin THEN iterations + 1 ELSE iterations
    /\ outcome' = "skipped"
    /\ UNCHANGED <<paged, faults, api_key_list, thread, self, op, pc, loc, task, objVars,
                   resource, kwargs, response, rpc, orig, sent>>

\* ------------------------------------------------- what the API may answer
\* filter mappings a caller may hand to _response directly
IdValues == {NoneV, StrV(<<>>), StrV(<<97>>), ListV(<<>>), ListV(<<97>>)}
MaxResultsValues == {IntV(0), IntV(50)}
FilterSets ==
    {<<>>} \cup {[k \in {"id"} |-> v] : v \in IdValues}
           \cup {[k \in {"maxResults"} |-> v] : v \in MaxResultsValues}
           \cup {[k \in {"id", "maxResults"} |-> IF k = "id" THEN v ELSE w] :
                    v \in IdValues, w \in MaxResultsValues}

\* opaque identifiers handed out by the API
ChannelId(c) == <<2000 + c>>
UploadsId(c) == <<3000 + c>>
VideoId(n) == <<1000 + n>>
Tokens == {<<>>, <<65>>}
PageSizes == {50}          \* items on a page that names a successor
LastPageSizes == {0, 1}    \* items on a page that names none

\* "2015-01-02T03:04:05Z"
S_publishedAt == <<50, 48, 49, 53, 45, 48, 49, 45, 48, 50, 84, 48, 51, 58, 48, 52, 58, 48, 53, 90>>
SnippetItem(c) ==
    [id |-> ChannelId(c),
     snippet |-> [title |-> <<116>>, description |-> <<>>,
                  publishedAt |-> S_publishedAt, thumbnails |-> <<>>]]

\* decimal strings the statistics API may report
S_0 == <<48>>
S_3 == <<51>>
S_7 == <<55>>
S_100 == <<49, 48, 48>>
S_500 == <<53, 48, 48>>
StatisticsItems ==
    {[id |-> ChannelId(1),
      statistics |-> [hiddenSubscriberCount |-> h, subscriberCount |-> s,
                      viewCount |-> v, videoCount |-> S_3]] :
        h \in BOOLEAN, s \in {S_0, S_100}, v \in {S_7, S_500}}

\* the n-th item the playlistItems API delivers for the uploads of channel ch
PlaylistItem(ch, n) ==
    [snippet |-> [channelId |-> ch, resourceId |-> [videoId |-> VideoId(n)],
                  title |-> <<116>>, description |-> <<>>,
                  publishedAt |-> <<50>>, thumbnails |-> <<>>]]

RECURSIVE SeqsUpTo(_, _)
SeqsUpTo(S, n) ==
    IF n = 0 THEN {<<>>}
    ELSE LET shorter == SeqsUpTo(S, n - 1) IN
         shorter \cup {Append(q, x) : q \in {r \in shorter : Len(r) = n - 1}, x \in S}

VideoStatistics == [viewCount |-> S_7, likeCount |-> S_3]

\* the dicts execute() may return for the request in flight
ApiDicts ==
    CASE task.name = "_video_desc" ->
            {Dict([i \in 1..size |-> PlaylistItem(task.ch_id, task.delivered + i)],
                  FALSE, <<>>) : size \in LastPageSizes}
            \cup
            {Dict([i \in 1..size |-> PlaylistItem(task.ch_id, task.delivered + i)],
                  TRUE, tok) : size \in {z \in PageSizes : paged < MaxPages},
                               tok \in Tokens}
      [] task.name = "_id_to_stats" ->
            {Dict([i \in 1..Len(task.x) |-> [id |-> task.x[i], statistics |-> VideoStatistics]],
                  FALSE, <<>>)}
      [] task.name = "none" /\ op = "channel_desc" ->
            {Dict([c \in 1..n |-> SnippetItem(c)], FALSE, <<>>) : n \in 0..1}
      [] task.name = "none" /\ op = "channel_countstats" ->
            {Dict(items, FALSE, <<>>) : items \in SeqsUpTo(StatisticsItems, MaxStatItems)}
      [] task.name = "none" /\ op = "video_statistics" ->
            {Dict([c \in 1..n |-> [id |-> VideoId(c), statistics |-> VideoStatistics]],
                  FALSE, <<>>) : n \in 0..1}
      [] task.name = "none" /\ op \in {"channel_video_desc", "video_statistics_by_channel"} ->
            {Dict([c \in 1..n |->
                      [id |-> ChannelId(c),
                       contentDetails |-> [relatedPlaylists |-> [uploads |-> UploadsId(c)]]]],
                  FALSE, <<>>) : n \in 0..MaxChannels}
      [] OTHER ->
            {Dict(<<>>, FALSE, <<>>), Dict(<<[id |-> VideoId(1)]>>, paged < MaxPages, <<65>>)}

\* one loop iteration whose execute() returns a non-empty dict: the loop ends
ResponseOk ==
    /\ InLoop
    /\ \E d \in ApiDicts :
          /\ response' = d
          /\ paged' = IF d.hasToken THEN paged + 1 ELSE paged
    /\ sent' = Request
    /\ iterations' = iterations + 1
    /\ outcome' = "ok"
    /\ rpc' = IF NotResponse(response') THEN "loop" ELSE "return"
    /\ UNCHANGED <<faults, api_key_list, thread, self, op, pc, loc, task, objVars,
                   resource, kwargs, orig>>

\* ------------------------------------------------ a direct call of _response
Call_response ==
    /\ pc = "idle"
    /\ \E res \in SupportedResources \cup {"other"}, kw \in FilterSets :
          Enter_response(res, kw)
    /\ op' = "_response" /\ pc' = "call"
    /\ UNCHANGED <<paged, faults, api_key_list, thread, self, loc, task, objVars>>

Return_response ==
    /\ op = "_response" /\ pc = "call" /\ rpc = "return"
    /\ loc' = [result |-> response]
    /\ pc' = "done"
    /\ Leave_response
    /\ UNCHANGED <<paged, faults, api_key_list, thread, self, op, task, objVars>>

\* StopIteration leaves _response and every frame above it; a pool task hands
\* it to ready.get(), which raises it in the caller
Propagate ==
    /\ rpc = "raise"
    /\ pc' = "failed"
    /\ loc' = [error |-> "StopIteration"]
    /\ task' = NoTask
    /\ self' = "main"
    /\ api_key_iter' = [api_key_iter EXCEPT !["copy"] = 0]
    /\ client' = [client EXCEPT !["copy"] = 0]
    /\ Leave_response
    /\ UNCHANGED <<paged, faults, api_key_list, thread, op, replaced>>

\* ------------------------------------------------------------ channel_desc
ChannelArgs == {NoneV, StrV(ChannelId(1))}

\* s[:10]
Slice10(s) == SubSeq(s, 1, IF Len(s) < 10 THEN Len(s) ELSE 10)

\* line 120
Call_channel_desc ==
    /\ pc = "idle"
    /\ \E id \in ChannelArgs :
          Enter_response("channels", [k \in {"part", "id"} |->
                                         IF k = "part" THEN StrV(S_snippet) ELSE id])
    /\ op' = "channel_desc" /\ pc' = "call"
    /\ UNCHANGED <<paged, faults, api_key_list, thread, self, loc, task, objVars>>

\* lines 122-130
Return_channel_desc ==
    /\ op = "channel_desc" /\ pc = "call" /\ rpc = "return"
    /\ loc' = [result |->
                 [i \in 1..Len(response.items) |->
                    [title |-> response.items[i].snippet.title,
                     ch_id |-> response.items[i].id,
                     description |-> response.items[i].snippet.description,
                     publishedAt |-> Slice10(response.items[i].snippet.publishedAt),
                     thumbnails |-> response.items[i].snippet.thumbnails]]]
    /\ pc' = "done"
    /\ Leave_response
    /\ UNCHANGED <<paged, faults, api_key_list, thread, self, op, task, objVars>>

\* ------------------------------------------------------ channel_countstats
\* int(s) for a string of decimal digits
RECURSIVE int(_)
int(s) == IF Len(s) = 0 THEN 0
          ELSE 10 * int(SubSeq(s, 1, Len(s) - 1)) + (s[Len(s)] - 48)

\* an int, a quotient of two ints (true division), or None
Null == [null |-> TRUE, num |-> 0, den |-> 1]
Num(n) == [null |-> FALSE, num |-> n, den |-> 1]
Quot(a, b) == [null |-> FALSE, num |-> a, den |-> b]

\* the local view_count before its first assignment
Unbound == -1

\* one pass of the loop body (lines 156-179) over the item `it`, entered with
\* the value `view_count` holds from the pass before
countstats_itemHiddenRatio(it, view_count) ==
    LET st == it.statistics
        sc == Num(int(st.subscriberCount))
    IN [raised |-> FALSE,
        rec |-> [ch_id |-> it.id,
                 subscriberCount |-> IF st.hiddenSubscriberCount THEN Null ELSE sc,
                 viewCount |-> int(st.viewCount),
                 videoCount |-> int(st.videoCount),
                 sub_view_ratio |-> IF sc.num = 0 THEN Null
                                    ELSE Quot(int(st.viewCount), sc.num)]]
countstats_item(it, view_count) ==
    LET st == it.statistics IN
    IF st.hiddenSubscriberCount
    THEN [raised |-> FALSE,
          rec |-> [ch_id |-> it.id, subscriberCount |-> Null,
                   viewCount |-> int(st.viewCount),
                   videoCount |-> int(st.videoCount),
                   sub_view_ratio |-> Null]]
    ELSE IF view_count = Unbound
    THEN [raised |-> TRUE, rec |-> Null]            \* UnboundLocalError, line 170
    ELSE LET subscriber_count == int(st.subscriberCount) IN
         [raised |-> FALSE,
          rec |-> [ch_id |-> it.id, subscriberCount |-> Num(subscriber_count),
                   viewCount |-> int(st.viewCount),
                   videoCount |-> int(st.videoCount),
                   sub_view_ratio |-> IF subscriber_count = 0 THEN Null   \* ZeroDivisionError
                                      ELSE Quot(view_count, subscriber_count)]]

\* the for loop of lines 154-179 from item i on
RECURSIVE countstats_loop(_, _, _, _)
countstats_loop(items, i, view_count, result_list) ==
    IF i > Len(items) THEN [raised |-> FALSE, at |-> 0, result |-> result_list]
    ELSE LET r == countstats_item(items[i], view_count) IN
         IF r.raised THEN [raised |-> TRUE, at |-> i, result |-> result_list]
         ELSE countstats_loop(items, i + 1, r.rec.viewCount, Append(result_list, r.rec))

\* line 150
Call_channel_countstats ==
    /\ pc = "idle"
    /\ \E id \in ChannelArgs :
          Enter_response("channels", [k \in {"part", "id"} |->
                                         IF k = "part" THEN StrV(S_statistics) ELSE id])
    /\ op' = "channel_countstats" /\ pc' = "call"
    /\ UNCHANGED <<paged, faults, api_key_list, thread, self, loc, task, objVars>>

\* lines 152-181; loc keeps the response items next to the result
Return_channel_countstats ==
    /\ op = "channel_countstats" /\ pc = "call" /\ rpc = "return"
    /\ LET r == countstats_loop(response.items, 1, Unbound, <<>>) IN
       /\ loc' = IF r.raised
                 THEN [error |-> "UnboundLocalError", items |-> response.items,
                       at |-> r.at, result |-> r.result]
                 ELSE [items |-> response.items, result |-> r.result]
       /\ pc' = IF r.raised THEN "failed" ELSE "done"
    /\ Leave_response
    /\ UNCHANGED <<paged, faults, api_key_list, thread, self, op, task, objVars>>

\* ---------------------------------------------------------- video_statistics
VideoArgs == {[k \in {"id", "part"} |->
                  IF k = "id" THEN StrV(VideoId(1)) ELSE StrV(S_statistics)]}

\* lines 303-310
video_statistics_list(items) ==
    [i \in 1..Len(items) |-> [videoId |-> items[i].id, statistics |-> items[i].statistics]]

\* line 299
Call_video_statistics ==
    /\ pc = "idle"
    /\ \E kw \in VideoArgs : Enter_response("videos", kw)
    /\ op' = "video_statistics" /\ pc' = "call"
    /\ UNCHANGED <<paged, faults, api_key_list, thread, self, loc, task, objVars>>

Return_video_statistics ==
    /\ op = "video_statistics" /\ pc = "call" /\ rpc = "return"
    /\ loc' = [result |-> video_statistics_list(response.items)]
    /\ pc' = "done"
    /\ Leave_response
    /\ UNCHANGED <<paged, faults, api_key_list, thread, self, op, task, objVars>>

\* ------------------------------------------------------------- _video_desc
\* lines 215-222
video_dict(items) ==
    [i \in 1..Len(items) |->
        [channelId |-> items[i].snippet.channelId,
         videoId |-> items[i].snippet.resourceId.videoId,
         title |-> items[i].snippet.title,
         description |-> items[i].snippet.description,
         publishedAt |-> items[i].snippet.publishedAt,
         thumbnails |-> items[i].snippet.thumbnails]]

\* line 224: video_dict_list.extend(video_dict)
extendOverwrite(l, more) == more
extend(l, more) == l \o more

\* line 226: 'nextPageToken' in response.keys()
HasNextPageTruthy(r) == r.hasToken /\ Len(r.nextPageToken) # 0
HasNextPage(r) == r.hasToken

\* lines 205-206, on entry of the task; pages, calls and delivered are history
New_video_desc(ch_id, upload_id) ==
    [name |-> "_video_desc", tpc |-> "loop", ch_id |-> ch_id, upload_id |-> upload_id,
     next_page_token |-> <<>>, video_dict_list |-> <<>>,
     tokens |-> 0, calls |-> 0, delivered |-> 0, last |-> None]

\* lines 210-213
VideoDescCall ==
    /\ task.name = "_video_desc" /\ task.tpc = "loop"
    /\ Enter_response("playlistitems",
          [k \in {"playlistId", "part", "maxResults", "pageToken"} |->
              CASE k = "playlistId" -> StrV(task.upload_id)
                [] k = "part" -> StrV(S_snippet)
                [] k = "maxResults" -> IntV(50)
                [] k = "pageToken" -> StrV(task.next_page_token)])
    /\ task' = [task EXCEPT !.tpc = "call", !.calls = @ + 1]
    /\ UNCHANGED <<paged, faults, api_key_list, thread, self, op, pc, loc, objVars>>

\* lines 215-235; tokens, delivered and last record what the API served
VideoDescPage ==
    /\ task.name = "_video_desc" /\ task.tpc = "call" /\ rpc = "return"
    /\ LET list == extend(task.video_dict_list, video_dict(response.items))
           seen == [task EXCEPT !.tokens = IF response.hasToken THEN @ + 1 ELSE @,
                                !.delivered = @ + Len(response.items),
                                !.last = [response EXCEPT !.items = <<>>]]
       IN task' = IF HasNextPage(response)
                  THEN [seen EXCEPT !.tpc = "loop",
                                    !.video_dict_list = list,
                                    !.next_page_token = response.nextPageToken]
                  ELSE [seen EXCEPT !.tpc = "returned",
                                    !.video_dict_list = list]
    /\ Leave_response
    /\ UNCHANGED <<paged, faults, api_key_list, thread, self, op, pc, loc, objVars>>

\* the dict of lines 231-235
video_desc_result(t) ==
    [ch_id |-> t.ch_id, upload_id |-> t.upload_id, video_info_list |-> t.video_dict_list]

\* ------------------------------------------------------ channel_video_desc
\* line 262, also reached through line 322
Call_channel_video_desc ==
    /\ pc = "idle"
    /\ Enter_response("channels",
          [k \in {"part", "id"} |->
              IF k = "part" THEN StrV(S_contentDetails) ELSE StrV(ChannelId(1))])
    /\ op' = "channel_video_desc"
    /\ pc' = "call"
    /\ UNCHANGED <<paged, faults, api_key_list, thread, self, loc, task, objVars>>

\* lines 264-272; lookup is history, the items of the lookup response, and
\* submitted is history, the arguments of the tasks handed to the pool
Return_contentDetails ==
    /\ op \in {"channel_video_desc", "video_statistics_by_channel"}
    /\ pc = "call" /\ rpc = "return"
    /\ loc' = [ch_uploads_id |->
                  [i \in 1..Len(response.items) |->
                     [ch_id |-> response.items[i].id,
                      uploads_id |-> response.items[i].contentDetails.relatedPlaylists.uploads]],
               results |-> <<>>, i |-> 1,
               lookup |-> response.items, submitted |-> <<>>]
    /\ pc' = "fanout"
    /\ Leave_response
    /\ UNCHANGED <<paged, faults, api_key_list, thread, self, op, task, objVars>>

\* pool.apply_async(bound method of self, ...): a ThreadPool worker runs the
\* method on self; a process Pool pickles self, so the worker runs it on a copy
RunsOnSelf == "main"
RunsOn == IF thread THEN "main" ELSE "copy"
Submit(t) ==
    /\ task' = t
    /\ self' = RunsOn
    /\ api_key_iter' = [api_key_iter EXCEPT ![RunsOn] = api_key_iter["main"]]
    /\ client' = [client EXCEPT ![RunsOn] = client["main"]]

\* ready.get() once the task has returned: the worker's copy is gone
Collect ==
    /\ task' = NoTask
    /\ self' = "main"
    /\ api_key_iter' = [api_key_iter EXCEPT !["copy"] = 0]
    /\ client' = [client EXCEPT !["copy"] = 0]

\* lines 274-282
Submit_video_descAll ==
    /\ op \in {"channel_video_desc", "video_statistics_by_channel"}
    /\ pc = "fanout" /\ loc.i <= Len(loc.ch_uploads_id)
    /\ Submit(New_video_desc(loc.ch_uploads_id[loc.i].ch_id,
                             loc.ch_uploads_id[loc.i].uploads_id))
    /\ loc' = [loc EXCEPT !.submitted =
                   @ \o [k \in 1..(Len(loc.ch_uploads_id) - Len(@)) |->
                            [ch_id |-> loc.ch_uploads_id[Len(@) + k].ch_id,
                             upload_id |-> loc.ch_uploads_id[Len(@) + k].uploads_id]]]
    /\ pc' = "wait"
    /\ UNCHANGED <<paged, faults, api_key_list, thread, op, replaced, callVars>>
Submit_video_desc ==
    /\ op \in {"channel_video_desc", "video_statistics_by_channel"}
    /\ pc = "fanout" /\ loc.i <= Len(loc.ch_uploads_id)
    /\ Submit(New_video_desc(loc.ch_uploads_id[loc.i].ch_id,
                             loc.ch_uploads_id[loc.i].uploads_id))
    /\ loc' = [loc EXCEPT !.submitted =
                   Append(@, [ch_id |-> task'.ch_id, upload_id |-> task'.upload_id])]
    /\ pc' = "wait"
    /\ UNCHANGED <<paged, faults, api_key_list, thread, op, replaced, callVars>>

\* line 283
Get_video_descPrepend ==
    /\ pc = "wait" /\ task.name = "_video_desc" /\ task.tpc = "returned"
    /\ loc' = [loc EXCEPT !.results = <<video_desc_result(task)>> \o @, !.i = @ + 1]
    /\ Collect
    /\ pc' = "fanout"
    /\ UNCHANGED <<paged, faults, api_key_list, thread, op, replaced, callVars>>
Get_video_desc ==
    /\ pc = "wait" /\ task.name = "_video_desc" /\ task.tpc = "returned"
    /\ loc' = [loc EXCEPT !.results = Append(@, video_desc_result(task)), !.i = @ + 1]
    /\ Collect
    /\ pc' = "fanout"
    /\ UNCHANGED <<paged, faults, api_key_list, thread, op, replaced, callVars>>

\* line 285
Return_channel_video_desc ==
    /\ op = "channel_video_desc"
    /\ pc = "fanout" /\ loc.i > Len(loc.ch_uploads_id)
    /\ loc' = [result |-> loc.results, lookup |-> loc.lookup, submitted |-> loc.submitted]
    /\ pc' = "done"
    /\ UNCHANGED <<paged, faults, api_key_list, thread, self, op, task, objVars, callVars>>

\* ------------------------------------------------ video_statistics_by_channel
\* l[a:b]
PySlice(l, a, b) == SubSeq(l, a + 1, IF b < Len(l) THEN b ELSE Len(l))

\* lines 96-101: for i in range(0, len(l), n): split_list.append(l[i:i + n])
RECURSIVE split_from(_, _, _)
split_from(l, n, i) ==
    IF i >= Len(l) THEN <<>>
    ELSE <<PySlice(l, i, i + n)>> \o split_from(l, n, i + n)
_split_listFullOnly(l, n) == split_from(SubSeq(l, 1, Len(l) - (Len(l) % n)), n, 0)
_split_list(l, n) == split_from(l, n, 0)

\* ','.join(x), line 314
RECURSIVE join(_)
join(x) ==
    IF Len(x) = 0 THEN <<>>
    ELSE IF Len(x) = 1 THEN x[1]
    ELSE x[1] \o <<Comma>> \o join(Tail(x))

\* line 322 has returned; lines 324-338
Enter_statistics_by_channel ==
    /\ op = "channel_video_desc"
    /\ pc = "fanout" /\ loc.i > Len(loc.ch_uploads_id)
    /\ op' = "video_statistics_by_channel"
    /\ loc' = [ch_video_dict_array |->
                  [c \in 1..Len(loc.results) |->
                     [ch_id |-> loc.results[c].ch_id,
                      video_id |-> [v \in 1..Len(loc.results[c].video_info_list) |->
                                       loc.results[c].video_info_list[v].videoId]]],
               ch_video_info_array |-> <<>>, j |-> 1]
    /\ pc' = "stats_fanout"
    /\ UNCHANGED <<paged, faults, api_key_list, thread, self, task, objVars, callVars>>

\* lines 340-342: the next channel; issued is history, the id lists (x) handed
\* to _response for this channel, and submitted is history, the id lists of the
\* tasks handed to the pool for this channel
Split_channel ==
    /\ op = "video_statistics_by_channel"
    /\ pc = "stats_fanout" /\ loc.j <= Len(loc.ch_video_dict_array)
    /\ loc' = [ch_video_dict_array |-> loc.ch_video_dict_array,
               ch_video_info_array |-> loc.ch_video_info_array,
               j |-> loc.j,
               ch_id |-> loc.ch_video_dict_array[loc.j].ch_id,
               video_split_list |-> _split_list(loc.ch_video_dict_array[loc.j].video_id, 50),
               s |-> 1, results |-> <<>>, issued |-> <<>>, submitted |-> <<>>]
    /\ pc' = "chunks"
    /\ UNCHANGED <<paged, faults, api_key_list, thread, self, op, task, objVars, callVars>>

\* line 344: pool.apply_async(self._id_to_stats, args=([split]))
Submit_id_to_stats ==
    /\ pc = "chunks" /\ loc.s <= Len(loc.video_split_list)
    /\ Submit([name |-> "_id_to_stats", tpc |-> "start", x |-> loc.video_split_list[loc.s]])
    /\ loc' = [loc EXCEPT !.submitted = Append(@, task'.x)]
    /\ pc' = "stats_wait"
    /\ UNCHANGED <<paged, faults, api_key_list, thread, op, replaced, callVars>>

\* lines 314-316 and 299
IdToStatsCall ==
    /\ task.name = "_id_to_stats" /\ task.tpc = "start"
    /\ Enter_response("videos",
          [k \in {"id", "part"} |->
              IF k = "id" THEN StrV(join(task.x)) ELSE StrV(S_statistics)])
    /\ task' = [task EXCEPT !.tpc = "call"]
    /\ loc' = [loc EXCEPT !.issued = Append(@, task.x)]
    /\ UNCHANGED <<paged, faults, api_key_list, thread, self, op, pc, objVars>>

\* lines 301-310 and 318
IdToStatsReturn ==
    /\ task.name = "_id_to_stats" /\ task.tpc = "call" /\ rpc = "return"
    /\ task' = [name |-> "_id_to_stats", tpc |-> "returned", x |-> task.x,
                videos_stats |-> video_statistics_list(response.items)]
    /\ Leave_response
    /\ UNCHANGED <<paged, faults, api_key_list, thread, self, op, pc, loc, objVars>>

\* line 344: .get()
Get_id_to_stats ==
    /\ pc = "stats_wait" /\ task.name = "_id_to_stats" /\ task.tpc = "returned"
    /\ loc' = [loc EXCEPT !.results = Append(@, task.videos_stats), !.s = @ + 1]
    /\ Collect
    /\ pc' = "chunks"
    /\ UNCHANGED <<paged, faults, api_key_list, thread, op, replaced, callVars>>

\* lines 347-351
Append_channel ==
    /\ pc = "chunks" /\ loc.s > Len(loc.video_split_list)
    /\ loc' = [ch_video_dict_array |-> loc.ch_video_dict_array,
               ch_video_info_array |->
                   Append(loc.ch_video_info_array,
                          [ch_id |-> loc.ch_id, video_stats |-> loc.results]),
               j |-> loc.j + 1]
    /\ pc' = "stats_fanout"
    /\ UNCHANGED <<paged, faults, api_key_list, thread, self, op, task, objVars, callVars>>

\* line 353
Return_statistics_by_channel ==
    /\ op = "video_statistics_by_channel"
    /\ pc = "stats_fanout" /\ loc.j > Len(loc.ch_video_dict_array)
    /\ loc' = [result |-> loc.ch_video_info_array]
    /\ pc' = "done"
    /\ UNCHANGED <<paged, faults, api_key_list, thread, self, op, task, objVars, callVars>>

\* ------------------------------------------------------------ statistics_sum
\* key and value strings of a statistics dict
S_viewCount == <<118, 105, 101, 119, 67, 111, 117, 110, 116>>
S_likeCount == <<108, 105, 107, 101, 67, 111, 117, 110, 116>>
S_kind == <<107, 105, 110, 100>>
S__sum == <<95, 115, 117, 109>>
S_video == <<118, 105, 100, 101, 111>>

\* a statistics dict: its keys in insertion order and the value of each key
StatDict(keys, val) == [keys |-> keys, val |-> val]
SumRecords ==
    {[statistics |-> StatDict(<<S_viewCount, S_kind>>,
                              [k \in {S_viewCount, S_kind} |->
                                  IF k = S_viewCount THEN v ELSE S_video])] :
        v \in {S_7, S_100}}
    \cup {[statistics |-> StatDict(<<S_likeCount>>, [k \in {S_likeCount} |-> S_3])]}

\* the tuples a caller may pass as *args
SumArgs == SeqsUpTo(SumRecords, 2)

\* str.isdigit() for ASCII text
isdigit(s) == Len(s) > 0 /\ \A i \in 1..Len(s) : s[i] \in 48..57

\* lines 377-386 for the keys of one record from position i on
RECURSIVE sum_keys(_, _, _)
sum_keys(vs_stat, i, vsc_sum) ==
    IF i > Len(vs_stat.keys) THEN vsc_sum
    ELSE LET key == vs_stat.keys[i] IN
         sum_keys(vs_stat, i + 1,
            IF isdigit(vs_stat.val[key])
            THEN IF key \in DOMAIN vsc_sum.val
                 THEN [vsc_sum EXCEPT !.val[key] = @ + int(vs_stat.val[key])]
                 ELSE StatDict(Append(vsc_sum.keys, key),
                               [k \in DOMAIN vsc_sum.val \cup {key} |->
                                   IF k = key THEN int(vs_stat.val[key])
                                   ELSE vsc_sum.val[k]])
            ELSE vsc_sum)

\* lines 372-386 for the records of the iterated collection from position i on
RECURSIVE sum_records(_, _, _)
sum_records(coll, i, vsc_sum) ==
    IF i > Len(coll) THEN vsc_sum
    ELSE sum_records(coll, i + 1, sum_keys(coll[i].statistics, 1, vsc_sum))

\* lines 388-392: vsc_sum[key + '_sum'] = vsc_sum[key]; vsc_sum.pop(key)
RECURSIVE rename_keys(_, _, _)
rename_keys(old_keys, i, val) ==
    IF i > Len(old_keys) THEN val
    ELSE LET key == old_keys[i]
             put == [k \in DOMAIN val \cup {key \o S__sum} |->
                        IF k = key \o S__sum THEN val[key] ELSE val[k]]
         IN rename_keys(old_keys, i + 1, [k \in DOMAIN put \ {key} |-> put[k]])

\* the names line 372 can see: the locals of statistics_sum and the globals of
\* the module (lines 1-11); only args carries a value the loop could iterate
ModuleGlobals == {"logging", "ThreadPool", "Pool", "build", "HttpError", "logger",
                  "YoutubeCrawler"}
SumScope(args) == [n \in {"self", "args", "vsc_sum"} \cup ModuleGlobals |->
                      IF n = "args" THEN args ELSE <<>>]

\* lines 370-394: line 372 iterates the name vsc
statistics_sum(args) ==
    LET scope == SumScope(args) IN
    IF "vsc" \in DOMAIN scope
    THEN LET vsc_sum == sum_records(scope["vsc"], 1, StatDict(<<>>, <<>>)) IN
         [raised |-> FALSE, result |-> rename_keys(vsc_sum.keys, 1, vsc_sum.val)]
    ELSE [raised |-> TRUE, result |-> <<>>]          \* NameError: name 'vsc' is not defined

Call_statistics_sum ==
    /\ pc = "idle"
    /\ \E args \in SumArgs :
          LET r == statistics_sum(args) IN
          /\ loc' = IF r.raised THEN [error |-> "NameError", args |-> args]
                    ELSE [args |-> args, result |-> r.result]
          /\ pc' = IF r.raised THEN "failed" ELSE "done"
    /\ op' = "statistics_sum"
    /\ UNCHANGED <<paged, faults, api_key_list, thread, self, task, objVars, callVars>>

\* the caller takes the result (or the exception) and is free to call again
Finish ==
    /\ pc \in {"done", "failed"}
    /\ op' = "none" /\ pc' = "idle" /\ loc' = NoLoc
    /\ faults' = 0 /\ paged' = 0
    /\ UNCHANGED <<api_key_list, thread, self, task, objVars, callVars>>

Next ==
    \/ Call_response
    \/ ResponseOk
    \/ ResponseEmpty
    \/ ResponseHttpError
    \/ ResponseUnsupported
    \/ Return_response
    \/ Call_channel_desc
    \/ Return_channel_desc
    \/ Call_channel_countstats
    \/ Return_channel_countstats
    \/ Call_video_statistics
    \/ Return_video_statistics
    \/ Call_channel_video_desc
    \/ Return_contentDetails
    \/ Submit_video_desc
    \/ VideoDescCall
    \/ VideoDescPage
    \/ Get_video_desc
    \/ Return_channel_video_desc
    \/ Enter_statistics_by_channel
    \/ Split_channel
    \/ Submit_id_to_stats
    \/ IdToStatsCall
    \/ IdToStatsReturn
    \/ Get_id_to_stats
    \/ Append_channel
    \/ Return_statistics_by_channel
    \/ Call_statistics_sum
    \/ Propagate
    \/ Finish

Spec == Init /\ [][Next]_vars

\* _response as the orchestrator itself calls it: directly and from the
\* operations that make one call and hand on its items (lines 120, 299)
DirectNext ==
    \/ Call_response
    \/ ResponseOk
    \/ ResponseEmpty
    \/ ResponseHttpError
    \/ ResponseUnsupported
    \/ Return_response
    \/ Call_channel_desc
    \/ Return_channel_desc
    \/ Call_video_statistics
    \/ Return_video_statistics
    \/ Propagate
    \/ Finish

\* the while loop of _response (lines 53-81) keeps running: an iteration that
\* can be made is made
LoopStep == ResponseOk \/ ResponseEmpty \/ ResponseHttpError
LiveSpec == Init /\ [][DirectNext]_vars /\ WF_vars(LoopStep)

\* =================================================================== claims
\* a step in which one loop iteration of _response sent a request
Attempted == InLoop /\ iterations' = iterations + 1
\* ... and execute() raised HttpError with status 403
Got403 == Attempted /\ outcome' = "403"

\* C1: a 403 that is followed by a retry has advanced the iterator of the
\* object running _response by exactly one key and rebound its client to the
\* key drawn, so the retry goes out with that key and not with the rejected one.
C1_RotateOn403 ==
    [][(Got403 /\ rpc' = "loop") =>
          /\ api_key_iter'[self] = api_key_iter[self] + 1
          /\ client'[self] = api_key_list[api_key_iter[self] + 1]
          /\ sent'.key = client[self]
          /\ client'[self'] # sent'.key]_vars

C1_Witness ==
    /\ rpc = "return" /\ iterations >= 2
    /\ Len(api_key_list) >= 2
    /\ sent.key = api_key_list[2]
    /\ api_key_list[1] \in replaced

\* C2 (as claimed): every request goes out with the key most recently drawn
\* from the list, and never with a key that was replaced after a 403.
C2_KeysInOrderNeverReused ==
    [][Attempted =>
          /\ client[self] = api_key_list[api_key_iter[self]]
          /\ client[self] \notin replaced]_vars

\* C3: a 403 met with the iterator exhausted raises out of _response with no
\* response, iterator and client untouched; the exception ends the public
\* operation without another request; and an iterator never moves back, so
\* an exhausted object stays exhausted.
C3_ExhaustedIsFatal ==
    [][/\ (Got403 /\ api_key_iter[self] = Len(api_key_list)) =>
             /\ rpc' = "raise"
             /\ NotResponse(response')
             /\ api_key_iter' = api_key_iter
             /\ client' = client
             /\ client'[self] = api_key_list[Len(api_key_list)]
       /\ rpc = "raise" =>
             /\ pc' = "failed" /\ rpc' = "none" /\ sent' = NoSent
             /\ task' = NoTask
             /\ client'["main"] = client["main"]
       /\ api_key_iter'["main"] >= api_key_iter["main"]
       /\ (self = "copy" /\ self' = "copy") =>
             api_key_iter'["copy"] >= api_key_iter["copy"]]_vars

C3_Witness ==
    /\ rpc = "raise"
    /\ Len(api_key_list) = 2
    /\ client[self] = api_key_list[2]
    /\ replaced = {api_key_list[1]}

\* C4: _video_desc makes one call of _response per page: after k responses
\* that carried a token it has made k calls and makes one more; it returns on
\* the first response without a token, k + 1 calls in all.
C4_OneCallPastLastToken ==
    task.name = "_video_desc" =>
       /\ task.tpc = "loop" =>
             /\ task.calls = task.tokens
             /\ task.calls > 0 => task.last.hasToken
       /\ task.tpc = "call" => task.calls = task.tokens + 1
       /\ task.tpc = "returned" =>
             /\ task.calls = task.tokens + 1
             /\ ~task.last.hasToken

C4_Witness ==
    /\ task.name = "_video_desc" /\ task.tpc = "returned"
    /\ task.tokens = MaxPages /\ task.calls = MaxPages + 1
    /\ task.last.kind = "dict"

\* C5: the dict _video_desc returns carries the ch_id and upload_id it was
\* given, and its video_info_list is the items the API delivered, page after
\* page, each exactly once and in the order of delivery.
C5_AllPagesInOrder ==
    (task.name = "_video_desc" /\ task.tpc = "returned") =>
       LET r == video_desc_result(task) IN
       /\ r.ch_id = loc.ch_uploads_id[loc.i].ch_id
       /\ r.upload_id = loc.ch_uploads_id[loc.i].uploads_id
       /\ Len(r.video_info_list) = task.delivered
       /\ \A n \in 1..task.delivered :
             /\ r.video_info_list[n].videoId = VideoId(n)
             /\ r.video_info_list[n].channelId = r.ch_id

C5_Witness ==
    /\ task.name = "_video_desc" /\ task.tpc = "returned"
    /\ task.tokens >= 1
    /\ task.delivered = 51
    /\ Len(task.video_dict_list) = 51

\* the statistics of item i of the response channel_countstats worked on
Stat(i) == loc.items[i].statistics
Hidden(i) == Stat(i).hiddenSubscriberCount
\* channel_countstats has had its response and has returned or raised
CountstatsEnded ==
    op = "channel_countstats" /\ pc \in {"done", "failed"} /\ "items" \in DOMAIN loc

\* C6 (as claimed): in the list channel_countstats returns, a channel whose
\* subscriber count is shown and not zero has sub_view_ratio equal to its own
\* viewCount over its own subscriberCount, wherever it stands in the response.
C6_RatioOfOwnCounts ==
    (op = "channel_countstats" /\ pc = "done") =>
       \A i \in 1..Len(loc.items) :
          (~Hidden(i) /\ int(Stat(i).subscriberCount) # 0) =>
             /\ ~loc.result[i].sub_view_ratio.null
             /\ loc.result[i].sub_view_ratio.num * int(Stat(i).subscriberCount)
                   = int(Stat(i).viewCount) * loc.result[i].sub_view_ratio.den

\* C7 (as claimed): a response holding a channel with a shown subscriber count
\* of 0 is worked off without failure, and that channel's ratio is null.
C7_ZeroSubscribersGiveNull ==
    CountstatsEnded =>
       \A i \in 1..Len(loc.items) :
          (~Hidden(i) /\ int(Stat(i).subscriberCount) = 0) =>
             /\ pc = "done"
             /\ loc.result[i].sub_view_ratio.null

IsFalsy(v) == v \in {NoneV, StrV(<<>>), IntV(0), ListV(<<>>)}

\* C9: every request _response sends carries exactly the keys of the mapping
\* it was given whose values are not falsy, each with its value; and a later
\* request of the same call carries the same mapping as the one before.
C9_PrunedOnce ==
    [][sent' # NoSent =>
          /\ DOMAIN sent'.kwargs = {k \in DOMAIN orig' : ~IsFalsy(orig'[k])}
          /\ \A k \in DOMAIN sent'.kwargs : sent'.kwargs[k] = orig'[k]
          /\ sent # NoSent => sent'.kwargs = sent.kwargs]_vars

C9_Witness ==
    /\ op = "_response" /\ iterations >= 2 /\ outcome = "ok"
    /\ orig = [k \in {"id", "maxResults"} |-> IF k = "id" THEN StrV(<<>>) ELSE IntV(50)]
    /\ sent.kwargs = [k \in {"maxResults"} |-> IntV(50)]

RECURSIVE Flatten(_)
Flatten(ll) == IF Len(ll) = 0 THEN <<>> ELSE Head(ll) \o Flatten(Tail(ll))

\* the split of a channel's id list l into chunks, as the claim wants it
GoodSplit(l, chunks) ==
    /\ Len(chunks) = (Len(l) + 49) \div 50
    /\ \A k \in 1..Len(chunks) :
          IF k < Len(chunks) THEN Len(chunks[k]) = 50
          ELSE Len(chunks[k]) \in 1..50
    /\ Flatten(chunks) = l

\* C10: video_statistics_by_channel splits each channel's id list into
\* ceil(n/50) consecutive chunks of 50 ids, the last one possibly shorter, that
\* put together give the list back; and it makes one call for statistics per
\* chunk, in order: s - 1 calls when chunk s is next, and one per chunk, with
\* one result each, when the channel is done.
C10_ChunksOf50 ==
    /\ pc \in {"chunks", "stats_wait"} =>
          /\ GoodSplit(loc.ch_video_dict_array[loc.j].video_id, loc.video_split_list)
          /\ loc.issued = SubSeq(loc.video_split_list, 1, Len(loc.issued))
          /\ pc = "chunks" => Len(loc.issued) = loc.s - 1
          /\ pc = "stats_wait" =>
                Len(loc.issued) = IF task.tpc = "start" THEN loc.s - 1 ELSE loc.s
    /\ (pc = "chunks" /\ loc.s > Len(loc.video_split_list)) =>
          /\ loc.issued = loc.video_split_list
          /\ Len(loc.results) = Len(loc.video_split_list)

C10_Witness ==
    /\ pc = "chunks" /\ loc.s > Len(loc.video_split_list)
    /\ Len(loc.ch_video_dict_array[loc.j].video_id) = 51
    /\ Len(loc.issued) = 2
    /\ Len(loc.issued[1]) = 50 /\ Len(loc.issued[2]) = 1

\* zero chunks and no request for a channel without videos
C10_WitnessEmpty ==
    /\ pc = "chunks" /\ loc.s > Len(loc.video_split_list)
    /\ Len(loc.ch_video_dict_array[loc.j].video_id) = 0
    /\ loc.issued = <<>>

\* the keys of the records in args that carry a string of decimal digits
NumericKeys(args) ==
    {k \in UNION {DOMAIN args[i].statistics.val : i \in 1..Len(args)} :
        \E i \in 1..Len(args) :
           /\ k \in DOMAIN args[i].statistics.val
           /\ isdigit(args[i].statistics.val[k])}
\* the sum of field k over the records of args from position i on
RECURSIVE Total(_, _, _)
Total(args, k, i) ==
    IF i > Len(args) THEN 0
    ELSE Total(args, k, i + 1)
         + (IF k \in DOMAIN args[i].statistics.val /\ isdigit(args[i].statistics.val[k])
            THEN int(args[i].statistics.val[k]) ELSE 0)

\* C11 (as claimed): statistics_sum returns, for the records passed to it, a
\* dict with one key k_sum per numeric-string field k, holding the sum of that
\* field over the records, and no other key.
C11_SumsNumericFields ==
    (op = "statistics_sum" /\ pc \in {"done", "failed"}) =>
       /\ pc = "done"
       /\ DOMAIN loc.result = {k \o S__sum : k \in NumericKeys(loc.args)}
       /\ \A k \in NumericKeys(loc.args) : loc.result[k \o S__sum] = Total(loc.args, k, 1)

\* the channel id and the uploads playlist id of a lookup item
LookupIds(item) ==
    [ch_id |-> item.id, upload_id |-> item.contentDetails.relatedPlaylists.uploads]
\* the first n entries of l name, in order, the first n lookup items
FollowsLookup(l, n) ==
    /\ Len(l) = n
    /\ n <= Len(loc.lookup)
    /\ \A k \in 1..n : /\ l[k].ch_id = LookupIds(loc.lookup[k]).ch_id
                       /\ l[k].upload_id = LookupIds(loc.lookup[k]).upload_id

\* C12: channel_video_desc hands the pool one _video_desc task per item of the
\* lookup response, in the order of the response and with that item's channel
\* id and uploads id; it has one result per task collected, in the same order,
\* and what it returns is one result per lookup item.
C12_OneTaskPerChannel ==
    /\ (pc \in {"fanout", "wait"}) =>
          /\ FollowsLookup(loc.submitted, Len(loc.submitted))
          /\ FollowsLookup(loc.results, Len(loc.results))
          /\ Len(loc.submitted) = Len(loc.results) + (IF pc = "wait" THEN 1 ELSE 0)
    /\ (op = "channel_video_desc" /\ pc = "done") =>
          /\ FollowsLookup(loc.submitted, Len(loc.lookup))
          /\ FollowsLookup(loc.result, Len(loc.lookup))

C12_Witness ==
    /\ op = "channel_video_desc" /\ pc = "done"
    /\ Len(loc.lookup) = 2 /\ Len(loc.result) = 2
    /\ loc.result[1].ch_id = ChannelId(1) /\ loc.result[2].upload_id = UploadsId(2)
    /\ Len(loc.result[1].video_info_list) = 1

\* C13: an attempt of _response that ends in an HttpError of a status other
\* than 403, or in an empty response, changes neither key iterator nor client
\* of any object and stays in the loop; the attempt that follows it goes out
\* with the key of the attempt before.
C13_OtherErrorsKeepKey ==
    [][/\ (Attempted /\ outcome' \in {"error", "empty"}) =>
             /\ api_key_iter' = api_key_iter
             /\ client' = client
             /\ self' = self
             /\ rpc' = "loop"
       /\ (Attempted /\ outcome \in {"error", "empty"}) =>
             /\ sent'.key = sent.key
             /\ sent'.key = client[self]]_vars

C13_Witness ==
    /\ op = "_response" /\ rpc = "return"
    /\ iterations = 3 /\ faults = 2
    /\ Len(api_key_list) = 2
    /\ replaced = {}
    /\ api_key_iter[self] = 1 /\ sent.key = api_key_list[1]

\* C14: _response leaves its loop in two ways only. It returns after an
\* attempt that was answered with a non-empty dict, and what it returns is
\* that dict; or it raises after a 403 met with every key drawn. It returns
\* neither None nor the empty dict, and no other HttpError reaches the caller.
C14_ReturnsNonEmptyOrExhausted ==
    /\ [](/\ rpc \in {"none", "loop", "return", "raise"}
          /\ rpc = "return" =>
                /\ response.kind = "dict"
                /\ outcome = "ok" /\ sent # NoSent
          /\ rpc = "raise" =>
                /\ outcome = "403"
                /\ api_key_iter[self] = Len(api_key_list)
                /\ response.kind # "dict"
          /\ (op = "_response" /\ pc = "done") => loc.result.kind = "dict")
    /\ [][/\ (rpc = "loop" /\ rpc' # "loop") =>
                /\ Attempted
                /\ outcome' \in {"ok", "403"}
                /\ outcome' = "ok" <=> rpc' = "return"
                /\ outcome' = "403" <=> rpc' = "raise"
          /\ (rpc = "return" /\ rpc' # "return") =>
                /\ rpc' = "none"
                /\ pc' = "failed" => loc'.error # "StopIteration"
          /\ (rpc = "raise" /\ rpc' # "raise") =>
                /\ rpc' = "none"
                /\ pc' = "failed" /\ loc'.error = "StopIteration"]_vars

C14_Witness ==
    /\ op = "_response" /\ pc = "done"
    /\ loc.result.kind = "dict" /\ Len(loc.result.items) = 1
    /\ faults = MaxFaults

C14_WitnessExhausted ==
    /\ op = "_response" /\ pc = "failed"
    /\ loc.error = "StopIteration"
    /\ faults = 1

\* pool tasks submitted and not yet collected by the operation in progress
Outstanding ==
    IF pc \in {"fanout", "wait", "chunks", "stats_wait"}
    THEN Len(loc.submitted) - Len(loc.results)
    ELSE 0

\* C15: channel_video_desc and video_statistics_by_channel have at most one
\* pool task outstanding: a task is submitted only when every task submitted
\* before it has been collected, a task runs exactly while it is the one
\* outstanding, and so every call of _response made by a task, with the key
\* rotations in it, belongs to that single task.
C15_OneTaskOutstanding ==
    /\ [](/\ Outstanding \in {0, 1}
          /\ task # NoTask <=> Outstanding = 1
          /\ self = "copy" => task # NoTask)
    /\ [][/\ Outstanding' > Outstanding =>
                /\ Outstanding = 0 /\ task = NoTask /\ rpc = "none"
                /\ Outstanding' = 1 /\ task' # NoTask
          /\ (task # NoTask /\ task' # NoTask) => Outstanding' = Outstanding]_vars

C15_Witness ==
    /\ pc = "wait" /\ loc.i = 2
    /\ Len(loc.submitted) = 2 /\ Len(loc.results) = 1
    /\ task.name = "_video_desc" /\ rpc = "loop"

C15_WitnessStats ==
    /\ pc = "stats_wait" /\ loc.s = 2
    /\ Len(loc.submitted) = 2 /\ Len(loc.results) = 1
    /\ task.name = "_id_to_stats" /\ rpc = "loop"

\* the key state of the orchestrator is the same before and after the step
MainKept == api_key_iter'["main"] = api_key_iter["main"] /\ client'["main"] = client["main"]
\* a 403 answered inside a pool task, after which the task retries
RotatedInTask == task # NoTask /\ Got403 /\ rpc' = "loop"

\* C16: a pool task starts from the orchestrator's key. With a process pool
\* the task works on a copy: a rotation in the task draws the next key for the
\* copy, and from submission to collection the orchestrator's iterator and
\* client do not change, so the next task starts from the same key again.
\* With a thread pool the task works on the orchestrator itself: a rotation in
\* the task moves the orchestrator's iterator and client, and collecting the
\* task leaves them as rotated.
C16_RotationInWorker ==
    /\ [](/\ (~thread /\ task # NoTask) => self = "copy"
          /\ (thread \/ task = NoTask) => self = "main")
    /\ [][/\ (task = NoTask /\ task' # NoTask) =>
                /\ api_key_iter'[self'] = api_key_iter["main"]
                /\ client'[self'] = client["main"]
                /\ MainKept
          /\ (~thread /\ (task # NoTask \/ task' # NoTask)) => MainKept
          /\ (~thread /\ RotatedInTask) =>
                /\ api_key_iter'["copy"] = api_key_iter["copy"] + 1
                /\ client'["copy"] = api_key_list[api_key_iter["copy"] + 1]
          /\ (thread /\ RotatedInTask) =>
                /\ api_key_iter'["main"] = api_key_iter["main"] + 1
                /\ client'["main"] = api_key_list[api_key_iter["main"] + 1]
          /\ (thread /\ task # NoTask /\ task' = NoTask) => MainKept]_vars

\* process pool: the second task starts from the key the first task replaced
C16_Witness ==
    /\ ~thread /\ pc = "wait" /\ loc.i = 2
    /\ task.name = "_video_desc" /\ task.calls = 0
    /\ api_key_list[1] \in replaced
    /\ client["main"] = api_key_list[1] /\ client["copy"] = api_key_list[1]

\* thread pool: the second task starts from the key drawn after the 403
C16_WitnessThread ==
    /\ thread /\ pc = "wait" /\ loc.i = 2
    /\ task.name = "_video_desc" /\ task.calls = 0
    /\ replaced = {api_key_list[1]}
    /\ client["main"] = api_key_list[2]

\* C17 (as claimed): the first request of a _video_desc task carries no
\* pageToken, and every later one carries as pageToken exactly the
\* nextPageToken of the response before it, whatever string that is.
C17_TokenOfPrecedingResponse ==
    [][(task.name = "_video_desc" /\ Attempted) =>
          IF task.last.kind = "None"
          THEN "pageToken" \notin DOMAIN sent'.kwargs
          ELSE /\ task.last.hasToken
               /\ "pageToken" \in DOMAIN sent'.kwargs
               /\ sent'.kwargs["pageToken"] = StrV(task.last.nextPageToken)]_vars

\* from some point on every attempt is answered with a non-empty dict
ApiSettlesOk == <>[][Attempted => outcome' = "ok"]_vars

\* C18: if from some point on every attempt is answered with a non-empty
\* dict, then from some point on every call of _response that is in its loop
\* on a supported resource returns. An attempt that raises an HttpError of a
\* status other than 403 leaves the call in its loop with its response, key
\* iterators and clients as they were, and only an attempt answered with a
\* non-empty dict or a 403 takes a call out of its loop: a call whose every
\* attempt raises such an error neither returns nor fails nor draws a key.
C18_ReturnsOnceApiAnswers ==
    /\ ApiSettlesOk => <>[](InLoop => <>(rpc = "return"))
    /\ [][(Attempted /\ outcome' = "error") =>
             /\ InLoop'
             /\ response' = response
             /\ api_key_iter' = api_key_iter
             /\ client' = client]_vars
    /\ [][(InLoop /\ ~InLoop') => (Attempted /\ outcome' \in {"ok", "403"})]_vars

C18_Witness ==
    /\ op = "channel_desc" /\ rpc = "return"
    /\ iterations = MaxFaults + 1 /\ outcome = "ok"
    /\ Len(api_key_list) = 2 /\ replaced = {}

\* the four resource names the claim lists
FourKinds == {"channels", "search", "videos", "playlistitems"}
\* a call of _response for a resource that is none of them is in progress
Spinning == rpc # "none" /\ resource \notin FourKinds

\* C19: a call of _response with a resource outside the four kinds stays in
\* its loop for ever: it has sent no request and has no response, no step
\* changes a key iterator or a client while it runs, and it neither returns
\* nor raises, so its caller never gets past the call.
C19_UnsupportedSpins ==
    /\ [](Spinning =>
             /\ rpc = "loop"
             /\ sent = NoSent /\ response = None
             /\ pc = "call" /\ task = NoTask)
    /\ [][Spinning =>
             /\ Spinning'
             /\ api_key_iter' = api_key_iter /\ client' = client
             /\ replaced' = replaced
             /\ UNCHANGED <<op, pc, loc, resource, kwargs>>]_vars

C19_Witness ==
    /\ Spinning
    /\ iterations = MaxSpin /\ outcome = "skipped"
    /\ kwargs = [k \in {"maxResults"} |-> IntV(50)]

====
